---- MODULE Spec2Model ----
(***************************************************************************)
(* Model of app.py of HybridRAG: the Streamlit front end of a hybrid RAG   *)
(* pipeline.  The module models                                            *)
(*   - _normalize_result and _render_rich_answer as operators over a       *)
(*     small universe of Python values,                                    *)
(*   - the script of app.py as one process per browser session, rerun      *)
(*     from the top on every user action, with st.session_state per        *)
(*     session and the st.cache_resource cache of _init_workflow_sync      *)
(*     shared by the sessions of the process.                              *)
(***************************************************************************)
EXTENDS Integers, Sequences, FiniteSets, TLC

VARIABLES
  cache,       \* st.cache_resource entry of _init_workflow_sync: a handle or NoHandle
  computing,   \* sessions whose call of _init_workflow_sync is running setup_hybrid_rag
  nextHandle,  \* identity of the next handle setup_hybrid_rag constructs
  reinits,     \* number of Reinitialize clicks so far (bounded)
  asked,       \* number of queries submitted so far (bounded)
  workflow,    \* workflow[s]: st.session_state.workflow of session s, or NoHandle (key absent)
  messages,    \* messages[s]: st.session_state.messages of session s
  pc,          \* pc[s]: where the script run of session s stands
  trigger,     \* trigger[s]: the widget whose value is set in the current run
  pending,     \* pending[s]: a user action that arrived while the run was in progress
  screen,      \* screen[s]: the chat bubbles drawn so far by the current run
  cycle,       \* cycle[s]: what happened in the current run (query text, outcome, calls, how it ended)
  qctx,        \* qctx[s]: the handle passed to query_hybrid_rag, and the cache as it stood at the call
  appended,    \* appended[s]: history of the turns appended since the last clear (ghost)
  completed,   \* successful initializations since the last .clear() (ghost)
  returned,    \* handles _init_workflow_sync returned since the last .clear() (ghost)
  initFailed,  \* the most recent initialization to end raised (ghost)
  fnIn,        \* input of the pure function being applied
  fnOut,       \* its output
  fnPc         \* "in" before the function is applied, "out" after

appVars == <<cache, computing, nextHandle, reinits, asked, workflow, messages, pc, trigger,
             pending, screen, cycle, qctx, appended, completed, returned, initFailed>>
fnVars == <<fnIn, fnOut, fnPc>>
vars == <<appVars, fnVars>>

----------------------------------------------------------------------------
(* Python values.  Every value is a record tagged by k; the other field    *)
(* differs with the tag, so values of different types never compare equal. *)

PyNone == [k |-> "none"]
PyStr(s) == [k |-> "str", s |-> s]
PyInt(n) == [k |-> "int", n |-> n]
PyList(items) == [k |-> "list", items |-> items]
PyDict(f) == [k |-> "dict", f |-> f]
Absent == [k |-> "absent"]

\* bool(v)
Truthy(v) ==
  CASE v.k = "none" -> FALSE
    [] v.k = "str" -> v.s # ""
    [] v.k = "int" -> v.n # 0
    [] v.k = "list" -> Len(v.items) > 0
    [] v.k = "dict" -> DOMAIN v.f # {}

\* a or b
PyOr(a, b) == IF Truthy(a) THEN a ELSE b

\* key in d
HasKey(d, key) == key \in DOMAIN d.f

\* d.get(key)
PyGet(d, key) == IF HasKey(d, key) THEN d.f[key] ELSE PyNone

\* str(v) of the values that are neither str nor dict
Digit(d) == <<"0", "1", "2", "3", "4", "5", "6", "7", "8", "9">>[d + 1]
RECURSIVE IntText(_)
IntText(n) == IF n < 10 THEN Digit(n) ELSE IntText(n \div 10) \o Digit(n % 10)
RECURSIVE ItemsText(_)
ItemsText(items) ==
  IF items = <<>> THEN ""
  ELSE LET h == Head(items)
           t == IF h.k = "int" THEN IntText(h.n)
                ELSE IF h.k = "str" THEN "'" \o h.s \o "'"
                ELSE IF h.k = "none" THEN "None" ELSE "{...}"
       IN  IF Tail(items) = <<>> THEN t ELSE t \o ", " \o ItemsText(Tail(items))
PyStrOf(v) ==
  CASE v.k = "str" -> v.s
    [] v.k = "int" -> IntText(v.n)
    [] v.k = "none" -> "None"
    [] v.k = "list" -> "[" \o ItemsText(v.items) \o "]"
    [] v.k = "dict" -> "{...}"

\* the dict with the keys of Keys whose choice c[key] is not Absent
MkDict(Keys, c) == PyDict([key \in {x \in Keys : c[x] # Absent} |-> c[key]])

----------------------------------------------------------------------------
(* _normalize_result *)

NormalizeAnswer(result) ==
  PyOr(PyOr(PyGet(result, "answer"), PyGet(result, "result")), PyStr(""))

KeepsSources(result) == HasKey(result, "sources") /\ result.f["sources"].k = "list"

_normalize_result(result) ==
  IF result.k = "str" THEN PyDict([answer |-> result])
  ELSE IF result.k = "dict" THEN
    LET keep == {"answer"}
                \cup (IF KeepsSources(result) THEN {"sources"} ELSE {})
                \cup (IF HasKey(result, "sql") THEN {"sql"} ELSE {})
                \cup (IF HasKey(result, "rows") THEN {"rows"} ELSE {})
    IN  PyDict([key \in keep |->
                  IF key = "answer" THEN NormalizeAnswer(result) ELSE result.f[key]])
  ELSE PyDict([answer |-> PyStr(PyStrOf(result))])

----------------------------------------------------------------------------
(* _render_rich_answer.  The result is the sequence of sections the call   *)
(* has written to the page, and whether it ended by raising.               *)

\* one iteration of the loop over payload["sources"]
SourceLine(i, src) ==
  LET score == PyGet(src, "score")
  IN  [index |-> i,
       title |-> PyOr(PyGet(src, "title"), PyStr("Source " \o IntText(i))),
       meta |-> IF score.k = "int" THEN PyStr("(score: " \o IntText(score.n) \o ".000)")
                ELSE PyStr(""),
       url |-> PyOr(PyGet(src, "url"), PyStr("")),
       snippet |-> PyOr(PyOr(PyGet(src, "snippet"), PyGet(src, "text")), PyStr(""))]

\* src.get raises AttributeError unless src is a dict
FirstBad(items) ==
  LET bad == {i \in 1..Len(items) : items[i].k # "dict"}
  IN  IF bad = {} THEN 0 ELSE CHOOSE i \in bad : \A j \in bad : i <= j

SourceLines(items) ==
  LET n == IF FirstBad(items) = 0 THEN Len(items) ELSE FirstBad(items) - 1
  IN  [i \in 1..n |-> SourceLine(i, items[i])]

ShowsField(payload, key) == HasKey(payload, key) /\ Truthy(payload.f[key])

\* a faulty variant of AnswerSection: an empty answer is not written
AnswerSectionSkipEmpty(payload) ==
  IF ShowsField(payload, "answer")
  THEN <<[kind |-> "answer", body |-> payload.f["answer"]]>>
  ELSE <<>>

AnswerSection(payload) ==
  <<[kind |-> "answer",
     body |-> IF HasKey(payload, "answer") THEN payload.f["answer"] ELSE PyStr("")]>>

SqlSection(payload) ==
  IF ShowsField(payload, "sql")
  THEN <<[kind |-> "sql", body |-> PyStr(PyStrOf(payload.f["sql"]))]>>
  ELSE <<>>

RowsSection(payload) ==
  IF ShowsField(payload, "rows")
  THEN <<[kind |-> "rows", body |-> payload.f["rows"]]>>
  ELSE <<>>

SourcesRaise(payload) ==
  /\ ShowsField(payload, "sources")
  /\ \/ payload.f["sources"].k # "list"
     \/ FirstBad(payload.f["sources"].items) # 0

SourcesSection(payload) ==
  IF ShowsField(payload, "sources")
  THEN <<[kind |-> "sources",
          body |-> PyList(IF payload.f["sources"].k = "list"
                          THEN SourceLines(payload.f["sources"].items) ELSE <<>>)]>>
  ELSE <<>>

_render_rich_answer(payload) ==
  [raised |-> SourcesRaise(payload),
   sections |-> AnswerSection(payload) \o SqlSection(payload)
                \o RowsSection(payload) \o SourcesSection(payload)]

----------------------------------------------------------------------------
(* The inputs of the two pure functions. *)

MaxSources == 2

SeqsUpTo(S, n) == UNION {[1..m -> S] : m \in 0..n}

ARow == PyDict([city |-> PyStr("NYC"), pop |-> PyInt(8)])

\* what query_hybrid_rag may return: text, a record of any shape, anything else
RawTexts == {PyStr(""), PyStr("txt")}
RawOthers == {PyNone, PyInt(0), PyInt(42), PyList(<<>>), PyList(<<PyInt(7)>>)}
RawKeys == {"answer", "result", "sources", "sql", "rows", "extra"}
RawField ==
  [answer |-> {Absent, PyNone, PyStr(""), PyStr("a"), PyInt(42)},
   result |-> {Absent, PyStr(""), PyStr("r"), PyInt(7)},
   sources |-> {Absent, PyStr("scalar"), PyList(<<>>),
                PyList(<<PyDict([title |-> PyStr("A")])>>), PyList(<<PyStr("doc")>>)},
   sql |-> {Absent, PyStr(""), PyStr("SELECT 1")},
   rows |-> {Absent, PyList(<<>>), PyList(<<ARow>>)},
   extra |-> {Absent, PyStr("x")}]
RawDicts ==
  {MkDict(RawKeys, c) : c \in {d \in [RawKeys -> UNION {RawField[key] : key \in RawKeys}] :
                                 \A key \in RawKeys : d[key] \in RawField[key]}}
RawInputs == RawTexts \cup RawOthers \cup RawDicts

\* the AnswerPayloads of the data model: answer a text, sql a text, rows and
\* sources sequences of records
SourceKeys == {"title", "score", "url"}
SourceField ==
  [title |-> {Absent, PyStr(""), PyStr("A")},
   score |-> {Absent, PyInt(1)},
   url |-> {Absent, PyStr("u")}]
Sources ==
  {MkDict(SourceKeys, c) : c \in {d \in [SourceKeys -> UNION {SourceField[key] : key \in SourceKeys}] :
                                    \A key \in SourceKeys : d[key] \in SourceField[key]}}
PayloadKeys == {"answer", "sources", "sql", "rows"}
AnswerPayloads ==
  {MkDict(PayloadKeys, [answer |-> a, sql |-> q, rows |-> r, sources |-> so]) :
     a \in {PyStr(""), PyStr("a")},
     q \in {Absent, PyStr(""), PyStr("SELECT 1")},
     r \in {Absent, PyList(<<>>), PyList(<<ARow>>)},
     so \in {Absent} \cup {PyList(l) : l \in SeqsUpTo(Sources, MaxSources)}}

----------------------------------------------------------------------------
(* The application's variables at rest, for the specifications of the pure *)
(* functions.                                                              *)

Sessions == {"s1", "s2"}
NoHandle == 0
NoAction == [w |-> "none", q |-> ""]
NoCycle == [q |-> "", outcome |-> Absent, calls |-> 0, end |-> "running"]
NoCtx == [h |-> NoHandle, newest |-> NoHandle, afterFailure |-> FALSE]

InitApp ==
  /\ cache = NoHandle
  /\ computing = {}
  /\ nextHandle = 1
  /\ reinits = 0
  /\ asked = 0
  /\ workflow = [s \in Sessions |-> NoHandle]
  /\ messages = [s \in Sessions |-> <<>>]
  /\ pc = [s \in Sessions |-> "idle"]
  /\ trigger = [s \in Sessions |-> NoAction]
  /\ pending = [s \in Sessions |-> NoAction]
  /\ screen = [s \in Sessions |-> <<>>]
  /\ cycle = [s \in Sessions |-> NoCycle]
  /\ qctx = [s \in Sessions |-> NoCtx]
  /\ appended = [s \in Sessions |-> <<>>]
  /\ completed = 0
  /\ returned = {}
  /\ initFailed = FALSE

InitFn == fnOut = Absent /\ fnPc = "in"

\* _normalize_result applied to one raw result
ApplyNormalize ==
  /\ fnPc = "in"
  /\ fnOut' = _normalize_result(fnIn)
  /\ fnPc' = "out"
  /\ UNCHANGED <<fnIn, appVars>>

InitNormalize == InitApp /\ InitFn /\ fnIn \in RawInputs
NextNormalize == ApplyNormalize
SpecNormalize == InitNormalize /\ [][NextNormalize]_vars

\* _render_rich_answer applied to one payload
ApplyRender ==
  /\ fnPc = "in"
  /\ fnOut' = _render_rich_answer(fnIn)
  /\ fnPc' = "out"
  /\ UNCHANGED <<fnIn, appVars>>

InitRender == InitApp /\ InitFn /\ fnIn \in AnswerPayloads
NextRender == ApplyRender
SpecRender == InitRender /\ [][NextRender]_vars

----------------------------------------------------------------------------
(* The script of app.py, one run per user action and per session.          *)

MaxQueries == 2    \* chat submissions and example-prompt clicks, over all sessions
MaxReinits == 1    \* Reinitialize clicks, over all sessions

Fallback == PyStr("Sorry, something went wrong while processing your query.")
ErrorBox == PyStr("Error during query")
Raised == [k |-> "raised"]

ExampleQueries == {"Which city has the highest population?"}
ChatTexts == ExampleQueries

\* what one call of query_hybrid_rag ends with
QueryOutcomes ==
  {Raised,
   PyDict([result |-> PyStr("42"), rows |-> PyList(<<ARow>>)]),
   PyDict([answer |-> PyStr("a"), sources |-> PyList(<<PyStr("doc")>>)])}

\* the user actions: the widgets of the page, and a plain load of it
UserActions ==
  {[w |-> "chip", q |-> t] : t \in ExampleQueries}
    \cup {[w |-> "chat", q |-> t] : t \in ChatTexts}
    \cup {[w |-> "clear", q |-> ""], [w |-> "reinit", q |-> ""], [w |-> "load", q |-> ""]}

Turn(role, content) == [role |-> role, content |-> content]
Bubble(role, content, live) == [role |-> role, content |-> content, live |-> live]

\* a faulty variant of AppendTurn: the last turn is overwritten
AppendTurnOverwriting(msgs, role, content) ==
  IF msgs = <<>> THEN <<Turn(role, content)>>
  ELSE [msgs EXCEPT ![Len(msgs)] = Turn(role, content)]

\* st.session_state.messages.append(...)
AppendTurn(msgs, role, content) == Append(msgs, Turn(role, content))

\* the loop over st.session_state.messages that redraws the history
Replay(msgs) == [i \in 1..Len(msgs) |-> Bubble(msgs[i].role, msgs[i].content, FALSE)]

\* a faulty variant of AnswerText: the error's own text is stored
AnswerTextOfError(outcome) ==
  IF outcome = Raised THEN ErrorBox
  ELSE LET payload == _normalize_result(outcome)
       IN  IF _render_rich_answer(payload).raised THEN Fallback
           ELSE IF HasKey(payload, "answer") THEN payload.f["answer"] ELSE PyStr("")

\* the try/except of _process_query: the text stored for the assistant
AnswerText(outcome) ==
  IF outcome = Raised THEN Fallback
  ELSE LET payload == _normalize_result(outcome)
       IN  IF _render_rich_answer(payload).raised THEN Fallback
           ELSE IF HasKey(payload, "answer") THEN payload.f["answer"] ELSE PyStr("")

\* what the assistant's chat message shows while the run that asked is drawn
LiveAnswer(outcome) ==
  IF outcome = Raised THEN ErrorBox
  ELSE _render_rich_answer(_normalize_result(outcome)).sections[1].body

\* a faulty variant of ComputeLockFree: every caller that misses computes
ComputeLockAbsent == TRUE

\* st.cache_resource computes a missing value under a lock: one caller at a time
ComputeLockFree == computing = {}

\* whether the widget of action a is on the page of session s: nothing but a
\* load is possible before the first run of the session got past its start
Offered(s, a) ==
  /\ a \in UserActions
  /\ a.w # "load" => workflow[s] # NoHandle
  /\ a.w \in {"chip", "chat"} => asked < MaxQueries
  /\ a.w = "reinit" => reinits < MaxReinits

\* where a run starts: the script reaches line 239
Entry(wf) == IF wf = NoHandle THEN "boot" ELSE "main"

\* a user action on a page at rest starts a run of the script
Click(s, a) ==
  /\ pc[s] = "idle"
  /\ Offered(s, a)
  /\ trigger' = [trigger EXCEPT ![s] = a]
  /\ screen' = [screen EXCEPT ![s] = <<>>]
  /\ cycle' = [cycle EXCEPT ![s] = NoCycle]
  /\ pc' = [pc EXCEPT ![s] = Entry(workflow[s])]
  /\ reinits' = IF a.w = "reinit" THEN reinits + 1 ELSE reinits
  /\ asked' = IF a.w \in {"chip", "chat"} THEN asked + 1 ELSE asked
  /\ UNCHANGED <<cache, computing, nextHandle, workflow, messages, pending, qctx,
                 appended, completed, returned, initFailed, fnVars>>

\* a user action while the run is blocked in an external call: the script
\* runner ends the run at its next st.* call and starts the run of the action
\* (the latest such action is the one that runs)
ClickDuringRun(s, a) ==
  /\ pc[s] \in {"boot", "query", "reinit"}
  /\ Offered(s, a)
  /\ pending' = [pending EXCEPT ![s] = a]
  /\ reinits' = IF a.w = "reinit" THEN reinits + 1 ELSE reinits
  /\ asked' = IF a.w \in {"chip", "chat"} THEN asked + 1 ELSE asked
  /\ UNCHANGED <<cache, computing, nextHandle, workflow, messages, pc, trigger, screen,
                 cycle, qctx, appended, completed, returned, initFailed, fnVars>>

\* the run of session s ends, with workflow wf and outcome how: the page rests,
\* or the run of the pending action starts
Leave(s, wf, how) ==
  IF pending[s] = NoAction
  THEN /\ pc' = [pc EXCEPT ![s] = "idle"]
       /\ cycle' = [cycle EXCEPT ![s].end = how]
       /\ trigger' = [trigger EXCEPT ![s] = NoAction]
       /\ UNCHANGED pending
  ELSE /\ pc' = [pc EXCEPT ![s] = Entry(wf)]
       /\ cycle' = [cycle EXCEPT ![s] = NoCycle]
       /\ trigger' = [trigger EXCEPT ![s] = pending[s]]
       /\ pending' = [pending EXCEPT ![s] = NoAction]

\* _init_workflow_sync() is called: a cached handle is returned, or
\* setup_hybrid_rag starts under the cache's lock
InitWorkflowCall(s) ==
  /\ pc[s] \in {"boot", "reinit"}
  /\ s \notin computing
  /\ IF cache # NoHandle
     THEN /\ workflow' = [workflow EXCEPT ![s] = cache]
          /\ returned' = returned \cup {cache}
          /\ IF pc[s] = "boot" /\ pending[s] = NoAction
             THEN /\ pc' = [pc EXCEPT ![s] = "main"]
                  /\ UNCHANGED <<cycle, trigger, pending, screen>>
             ELSE /\ Leave(s, cache, "ok")
                  /\ screen' = [screen EXCEPT ![s] =
                                  IF pending[s] = NoAction THEN @ ELSE <<>>]
          /\ UNCHANGED computing
     ELSE /\ ComputeLockFree
          /\ computing' = computing \cup {s}
          /\ UNCHANGED <<workflow, returned, pc, cycle, trigger, pending, screen>>
  /\ UNCHANGED <<cache, nextHandle, reinits, asked, messages, qctx, appended, completed,
                 initFailed, fnVars>>

\* setup_hybrid_rag returns a new handle (ok) or raises
InitWorkflowDone(s, ok) ==
  /\ s \in computing
  /\ computing' = computing \ {s}
  /\ initFailed' = ~ok
  /\ IF ok
     THEN /\ cache' = nextHandle
          /\ nextHandle' = nextHandle + 1
          /\ completed' = completed + 1
          /\ returned' = returned \cup {nextHandle}
          /\ workflow' = [workflow EXCEPT ![s] = nextHandle]
          /\ IF pc[s] = "boot" /\ pending[s] = NoAction
             THEN /\ pc' = [pc EXCEPT ![s] = "main"]
                  /\ UNCHANGED <<cycle, trigger, pending, screen>>
             ELSE /\ Leave(s, nextHandle, "ok")
                  /\ screen' = [screen EXCEPT ![s] =
                                  IF pending[s] = NoAction THEN @ ELSE <<>>]
     ELSE \* line 241 lets the error end the run; line 399 catches it
          /\ Leave(s, workflow[s], IF pc[s] = "boot" THEN "init_error" ELSE "ok")
          /\ screen' = [screen EXCEPT ![s] = IF pending[s] = NoAction THEN @ ELSE <<>>]
          /\ UNCHANGED <<cache, nextHandle, completed, returned, workflow>>
  /\ UNCHANGED <<reinits, asked, messages, qctx, appended, fnVars>>

\* _process_query up to the call of query_hybrid_rag
StartQuery(s, shown) ==
  /\ messages' = [messages EXCEPT ![s] = AppendTurn(@, "user", PyStr(trigger[s].q))]
  /\ appended' = [appended EXCEPT ![s] = Append(@, Turn("user", PyStr(trigger[s].q)))]
  /\ screen' = [screen EXCEPT ![s] = shown \o <<Bubble("user", PyStr(trigger[s].q), TRUE)>>]
  /\ cycle' = [cycle EXCEPT ![s] = [q |-> trigger[s].q, outcome |-> Absent,
                                    calls |-> 1, end |-> "running"]]
  /\ qctx' = [qctx EXCEPT ![s] = [h |-> workflow[s], newest |-> nextHandle - 1,
                                  afterFailure |-> initFailed]]
  /\ pc' = [pc EXCEPT ![s] = "query"]
  /\ UNCHANGED <<cache, completed, returned, trigger>>

\* the script from line 243 to its next external call, or to its end
Main(s) ==
  /\ pc[s] = "main"
  /\ CASE trigger[s].w = "chip" -> StartQuery(s, <<>>)
       [] trigger[s].w = "chat" -> StartQuery(s, Replay(messages[s]))
       [] trigger[s].w = "clear" ->
            \* st.session_state.messages = []; st.rerun()
            /\ messages' = [messages EXCEPT ![s] = <<>>]
            /\ appended' = [appended EXCEPT ![s] = <<>>]
            /\ trigger' = [trigger EXCEPT ![s] = [w |-> "load", q |-> ""]]
            /\ screen' = [screen EXCEPT ![s] = <<>>]
            /\ UNCHANGED <<cache, completed, returned, cycle, qctx, pc>>
       [] trigger[s].w = "reinit" ->
            \* _init_workflow_sync.clear(), then the call of line 398
            /\ screen' = [screen EXCEPT ![s] = @ \o Replay(messages[s])]
            /\ cache' = NoHandle
            /\ completed' = 0
            /\ returned' = {}
            /\ pc' = [pc EXCEPT ![s] = "reinit"]
            /\ UNCHANGED <<messages, appended, trigger, cycle, qctx>>
       [] OTHER ->
            /\ screen' = [screen EXCEPT ![s] = @ \o Replay(messages[s])]
            /\ pc' = [pc EXCEPT ![s] = "idle"]
            /\ cycle' = [cycle EXCEPT ![s].end = "ok"]
            /\ trigger' = [trigger EXCEPT ![s] = NoAction]
            /\ UNCHANGED <<cache, completed, returned, messages, appended, qctx>>
  /\ UNCHANGED <<computing, nextHandle, reinits, asked, workflow, pending, initFailed, fnVars>>

\* query_hybrid_rag ends with outcome: the rest of _process_query and of the run
QueryDone(s, outcome) ==
  /\ pc[s] = "query"
  /\ outcome \in QueryOutcomes
  /\ qctx' = [qctx EXCEPT ![s] = NoCtx]
  /\ IF pending[s] # NoAction
     THEN \* RerunException at st.markdown / st.error: not an Exception, not caught
          /\ Leave(s, workflow[s], "rerun")
          /\ screen' = [screen EXCEPT ![s] = <<>>]
          /\ UNCHANGED <<messages, appended>>
     ELSE /\ messages' = [messages EXCEPT ![s] = AppendTurn(@, "assistant", AnswerText(outcome))]
          /\ appended' = [appended EXCEPT ![s] = Append(@, Turn("assistant", AnswerText(outcome)))]
          /\ screen' = [screen EXCEPT ![s] =
                          @ \o <<Bubble("assistant", LiveAnswer(outcome), TRUE)>>
                            \o (IF trigger[s].w = "chip" THEN Replay(messages'[s]) ELSE <<>>)]
          /\ pc' = [pc EXCEPT ![s] = "idle"]
          /\ cycle' = [cycle EXCEPT ![s].outcome = outcome, ![s].end = "ok"]
          /\ trigger' = [trigger EXCEPT ![s] = NoAction]
          /\ UNCHANGED pending
  /\ UNCHANGED <<cache, computing, nextHandle, reinits, asked, workflow, completed,
                 returned, initFailed, fnVars>>

Init == InitApp /\ InitFn /\ fnIn = Absent

Next ==
  \E s \in Sessions :
    \/ \E a \in UserActions : Click(s, a)
    \/ \E a \in UserActions : ClickDuringRun(s, a)
    \/ InitWorkflowCall(s)
    \/ \E ok \in BOOLEAN : InitWorkflowDone(s, ok)
    \/ Main(s)
    \/ \E outcome \in QueryOutcomes : QueryDone(s, outcome)

Spec == Init /\ [][Next]_vars

----------------------------------------------------------------------------
(* The claims. *)

Last(seq) == seq[Len(seq)]

C2_SuccessStoresAnswer ==
  \A s \in Sessions :
    (pc[s] = "idle" /\ cycle[s].outcome \notin {Absent, Raised}) =>
      Last(messages[s]) = Turn("assistant", _normalize_result(cycle[s].outcome).f["answer"])

C4_QueriesUseNewestHandle ==
  \A s \in Sessions : pc[s] = "query" => qctx[s].h = qctx[s].newest

\* C5: after an initialization has failed no handle is cached, and no query is
\* run until an initialization has succeeded.
C5_NoQueryAfterFailedInit ==
  /\ initFailed => cache = NoHandle
  /\ \A s \in Sessions : pc[s] = "query" => ~qctx[s].afterFailure

\* C6: the store of a session is exactly the sequence of turns appended since
\* its last clear, in append order.
C6_AppendOnly == \A s \in Sessions : messages[s] = appended[s]

\* one session, the other never loaded: a second query after a Clear Chat
C6_Witness ==
  \E s \in Sessions :
    /\ asked = 2 /\ Len(messages[s]) = 1 /\ pc[s] = "query"
    /\ \A t \in Sessions \ {s} : workflow[t] = NoHandle /\ pc[t] = "idle"

\* C7: normalize agrees with the reference mapping (answer field when present,
\* else result field when present, else the empty string; sources only when a
\* list; sql and rows verbatim), and its answer is always a text.
RefAnswer(rec) ==
  IF HasKey(rec, "answer") THEN rec.f["answer"]
  ELSE IF HasKey(rec, "result") THEN rec.f["result"] ELSE PyStr("")
RefNormalize(r) ==
  IF r.k = "str" THEN PyDict([answer |-> r])
  ELSE IF r.k = "dict" THEN
    PyDict([key \in {"answer"} \cup {x \in {"sql", "rows"} : HasKey(r, x)}
                  \cup {x \in {"sources"} : HasKey(r, x) /\ r.f[x].k = "list"} |->
              IF key = "answer" THEN RefAnswer(r) ELSE r.f[key]])
  ELSE PyDict([answer |-> PyStr(PyStrOf(r))])
C7_NormalizeMatchesReference ==
  fnPc = "out" => fnOut = RefNormalize(fnIn) /\ fnOut.f["answer"].k = "str"

\* C8: render emits the answer first and verbatim, then the SQL trace, the
\* structured results and the sources, each if and only if its field is present
\* and non-empty; sources are numbered 1..N in order, an absent title shown as
\* "Source {index}".
NonEmpty(p, key) ==
  /\ key \in DOMAIN p.f
  /\ IF p.f[key].k = "str" THEN p.f[key].s # "" ELSE Len(p.f[key].items) > 0
SectionOf(secs, kind) == secs[CHOOSE i \in 1..Len(secs) : secs[i].kind = kind]
C8_RenderSections ==
  fnPc = "out" =>
    LET p == fnIn
        secs == fnOut.sections
    IN  /\ ~fnOut.raised
        /\ [i \in 1..Len(secs) |-> secs[i].kind]
             = <<"answer">> \o (IF NonEmpty(p, "sql") THEN <<"sql">> ELSE <<>>)
                 \o (IF NonEmpty(p, "rows") THEN <<"rows">> ELSE <<>>)
                 \o (IF NonEmpty(p, "sources") THEN <<"sources">> ELSE <<>>)
        /\ secs[1].body = p.f["answer"]
        /\ NonEmpty(p, "sql") => SectionOf(secs, "sql").body = p.f["sql"]
        /\ NonEmpty(p, "rows") => SectionOf(secs, "rows").body = p.f["rows"]
        /\ NonEmpty(p, "sources") =>
             LET lines == SectionOf(secs, "sources").body.items
                 srcs == p.f["sources"].items
             IN  /\ Len(lines) = Len(srcs)
                 /\ \A i \in 1..Len(srcs) :
                      /\ lines[i].index = i
                      /\ lines[i].url = PyGet(srcs[i], "url") \/ ~HasKey(srcs[i], "url")
                      /\ ~HasKey(srcs[i], "title") =>
                           lines[i].title = PyStr("Source " \o IntText(i))
                      /\ NonEmpty(srcs[i], "title") => lines[i].title = srcs[i].f["title"]

\* an empty answer, every optional section, and a second source without title
C8_Witness ==
  /\ fnPc = "out"
  /\ fnIn.f["answer"] = PyStr("")
  /\ NonEmpty(fnIn, "sql") /\ NonEmpty(fnIn, "rows") /\ NonEmpty(fnIn, "sources")
  /\ Len(fnIn.f["sources"].items) = 2
  /\ HasKey(fnIn.f["sources"].items[1], "title")
  /\ ~HasKey(fnIn.f["sources"].items[2], "title")
  /\ Len(fnOut.sections) = 4

\* C9: at the end of every run the store is a sequence of (user, assistant)
\* pairs: no user turn is left without its assistant turn.
Paired(msgs) ==
  /\ Len(msgs) % 2 = 0
  /\ \A i \in 1..Len(msgs) : msgs[i].role = IF i % 2 = 1 THEN "user" ELSE "assistant"
C9_EveryQueryAnswered == \A s \in Sessions : pc[s] = "idle" => Paired(messages[s])

\* C10: at the end of every run the bubbles on screen are the stored turns, each
\* shown once and in append order.
C10_ScreenShowsHistory ==
  \A s \in Sessions :
    (pc[s] = "idle" /\ cycle[s].end = "ok") =>
      /\ Len(screen[s]) = Len(messages[s])
      /\ \A i \in 1..Len(screen[s]) :
           /\ screen[s][i].role = messages[s][i].role
           /\ ~screen[s][i].live => screen[s][i].content = messages[s][i].content

====
